---------------------------- MODULE Spec2Model ----------------------------
(***************************************************************************)
(* A model of the graph builder (builder.h) and the chunked bucket         *)
(* (bucket.h) of the GAP benchmark suite.                                  *)
(*                                                                         *)
(* Arrays (pvector, new[]) are functions on 0..n-1.  A pointer into the    *)
(* neighbor array is the position it points at, so an index array is the   *)
(* array of slice start positions.  A parallel-for is one process per      *)
(* iteration; each step of an iteration is one operation on shared memory  *)
(* (a fetch_and_add, together with the store into the slot it returned)    *)
(* with the private computation around it, or the work of one iteration    *)
(* that shares nothing with the others.                                    *)
(***************************************************************************)
EXTENDS Integers, Sequences, FiniteSets, TLC

\* ------------------------------------------------------------------ bounds
MaxNodeID == 2
MaxEdges == 2
\* The source's block is 1<<20 entries; the model scales it down so that
\* arrays of a few entries span several blocks and end inside a block.
BlockSize == 2
\* The graphs RelabelByDegree is run on by itself have at most this many nodes.
MaxRelabelNodes == 3
\* The producers that hand vectors to a bucket, and their vectors' lengths.
NumProducers == 3
MaxVectorLen == 3
\* The degree arrays the prefix sums are run on by themselves.
MaxPrefixLen == 5
MaxDegree == 2
\* MakeGraph as a whole: node ids and edges of the edge lists it is run on.
MaxBuildNodeID == 1
MaxBuildEdges == 2
\* Bucket: calls made one after another on a bucket.
MaxCalls == 4
\* The content of storage that was allocated and never written.
Uninit == -1
\* num_nodes_ before the node count is known.
NoNumNodes == -1
\* What RelabelByDegree passes to std::exit.
ExitCode == -11

NodeIDs == 0..MaxNodeID
Edges == NodeIDs \X NodeIDs
\* The edge list of the end-to-end scenario.
ScenarioEL == << <<0, 1>>, <<1, 0>>, <<0, 1>>, <<2, 2>> >>
EdgeLists == UNION {[1..k -> Edges] : k \in 0..MaxEdges} \cup {ScenarioEL}

Sides == {"out", "in"}

\* ------------------------------------------------------------ array helpers
Size(a) == Cardinality(DOMAIN a)
Min(a, b) == IF a < b THEN a ELSE b
Max(a, b) == IF a < b THEN b ELSE a
NewArray(n, x) == [i \in 0..(n - 1) |-> x]
NullPtr == NewArray(0, Uninit)

RECURSIVE SumRange(_, _, _)
\* a[lo] + ... + a[hi-1]
SumRange(a, lo, hi) == IF lo >= hi THEN 0 ELSE a[lo] + SumRange(a, lo + 1, hi)

\* --------------------------------------------------------------- variables
VARIABLES
  pc,            \* where MakeGraph is
  el,            \* the edge list
  symmetrize_,   \* cli_.symmetrize()
  invert,        \* the template parameter
  num_nodes_,
  transpose,     \* MakeCSR's parameter
  degrees,       \* MakeCSR's degree array
  offsets,       \* MakeCSR's offset array, the cursors of the scatter
  index,         \* MakeGraphFromEL's index ("out") and inv_index ("in")
  neighs,        \* MakeGraphFromEL's neighs ("out") and inv_neighs ("in")
  it_pc,         \* per iteration of a parallel loop over el: steps taken
  slot_u,        \* per iteration: what fetch_and_add(offsets[e.u]) returned
  slot_v,        \* per iteration: what fetch_and_add(offsets[e.v]) returned
  writes,        \* per neighbor slot: the number of stores made into it
  g,             \* the graph MakeGraphFromEL returned
  sq_transpose,  \* SquishCSR's parameter
  diffs,         \* SquishCSR's diffs
  sq_offsets,    \* SquishCSR's sq_offsets
  sq_index,      \* SquishGraph's out_index ("out") and in_index ("in")
  sq_neighs,     \* SquishGraph's out_neighs ("out") and in_neighs ("in")
  n_pc,          \* per iteration of a parallel loop over nodes: steps taken
  pre_squish,    \* per side and node: the ids in its slice when SquishGraph began
  result         \* the graph MakeGraph returned

builderVars == <<pc, el, symmetrize_, invert, num_nodes_, transpose, degrees,
                 offsets, index, neighs, it_pc, slot_u, slot_v, writes, g,
                 sq_transpose, diffs, sq_offsets, sq_index, sq_neighs, n_pc,
                 pre_squish, result>>

\* PrefixSum and ParallelPrefixSum run on one degree array.
VARIABLES
  ps_pc,         \* where the run is
  ps_degrees,    \* the argument of both
  sums,          \* what PrefixSum returned
  local_sums,    \* ParallelPrefixSum's local_sums
  bulk_prefix,   \* ParallelPrefixSum's bulk_prefix
  prefix,        \* ParallelPrefixSum's prefix
  blk_pc         \* per block: parallel loops it has been through

prefixVars == <<ps_pc, ps_degrees, sums, local_sums, bulk_prefix, prefix,
                blk_pc>>

\* RelabelByDegree run on one graph.
VARIABLES
  rl_pc,            \* where the call is
  rg,               \* the argument g: node count, directedness, the
                    \* outgoing index and neighbor arrays
  degree_id_pairs,
  rl_degrees,       \* RelabelByDegree's degrees
  new_ids,
  rl_offsets,       \* RelabelByDegree's offsets
  rl_index,         \* RelabelByDegree's index
  rl_neighs,        \* RelabelByDegree's neighs
  u_pc,             \* per iteration of a parallel loop over nodes: steps taken
  rl_result,        \* the graph returned
  cout,             \* what was written to std::cout
  exit_status       \* the status the process ended with

relabelVars == <<rl_pc, rg, degree_id_pairs, rl_degrees, new_ids, rl_offsets,
                 rl_index, rl_neighs, u_pc, rl_result, cout, exit_status>>

\* A Bucket, the threads that append to it and an iteration over it.
VARIABLES
  b_pc,          \* "append": the producers run; "read": iteration has begun
  chunks_,
  num_elements_,
  v,             \* per producer: its vector
  v0,            \* per producer: its vector as it was before the call
  p_pc,          \* per producer: "call" before swap_vector_in, "done" after
  it,            \* the iterator that walks the bucket
  walk,          \* what the walk dereferenced
  cmp            \* the last evaluation of an operator on two iterators

bucketVars == <<b_pc, chunks_, num_elements_, v, v0, p_pc, it, walk, cmp>>

\* What MakeGraph is asked to build from.
VARIABLES
  source         \* "serialized", "file", "generated" or "none"

cliVars == <<source>>

\* Iterators of one bucket and the arithmetic on them.
VARIABLES
  a_pc,          \* "walk"; "measured" after operator-; "advanced" after +=
  chunks_ref_,   \* the chunks of the bucket the iterators belong to
  pos,           \* an iterator of it
  dist,          \* an evaluation of operator-, both ways round
  adv            \* an evaluation of operator+=

arithVars == <<a_pc, chunks_ref_, pos, dist, adv>>

\* Two buckets and a sequence of calls on them, one after another.
VARIABLES
  bucket,        \* [chunks_, num_elements_]
  other,         \* [chunks_, num_elements_], the argument of swap
  calls          \* the number of calls made

callVars == <<bucket, other, calls>>

moreVars == <<cliVars, arithVars, callVars>>

vars == <<builderVars, prefixVars, relabelVars, bucketVars, moreVars>>

notBuilderVars == <<prefixVars, relabelVars, bucketVars, moreVars>>
notPrefixVars == <<builderVars, relabelVars, bucketVars, moreVars>>
notRelabelVars == <<builderVars, prefixVars, bucketVars, moreVars>>
notBucketVars == <<builderVars, prefixVars, relabelVars, moreVars>>
notArithVars ==
  <<builderVars, prefixVars, relabelVars, bucketVars, cliVars, callVars>>
notCallVars ==
  <<builderVars, prefixVars, relabelVars, bucketVars, cliVars, arithVars>>

\* ------------------------------------------------------------ FindMaxNodeID
RECURSIVE MaxSeen(_, _, _)
MaxSeen(l, i, max_seen) ==
  IF i > Len(l) THEN max_seen
  ELSE MaxSeen(l, i + 1, Max(Max(max_seen, l[i][1]), l[i][2]))

FindMaxNodeID(l) == MaxSeen(l, 1, 0)

\* ------------------------------------------------------------- prefix sums
RECURSIVE PrefixSumLoop(_, _, _, _)
PrefixSumLoop(d, n, total, acc) ==
  IF n < Size(d)
  THEN PrefixSumLoop(d, n + 1, total + d[n], [acc EXCEPT ![n] = total])
  ELSE [acc EXCEPT ![Size(d)] = total]

PrefixSum(d) == PrefixSumLoop(d, 0, 0, NewArray(Size(d) + 1, Uninit))

NumBlocks(d) == (Size(d) + BlockSize - 1) \div BlockSize
BlockBegin(block) == block * BlockSize
BlockEnd(d, block) == Min((block + 1) * BlockSize, Size(d))

\* The first parallel loop's body: the sum of one block.
LocalSum(d, block) == SumRange(d, BlockBegin(block), BlockEnd(d, block))

RECURSIVE BulkPrefixLoop(_, _, _, _, _)
BulkPrefixLoop(lsums, num_blocks, block, total, bulk) ==
  IF block < num_blocks
  THEN BulkPrefixLoop(lsums, num_blocks, block + 1, total + lsums[block],
                      [bulk EXCEPT ![block] = total])
  ELSE [bulk EXCEPT ![num_blocks] = total]

\* The serial loop over the blocks' sums.
BulkPrefix(lsums, num_blocks) ==
  BulkPrefixLoop(lsums, num_blocks, 0, 0, NewArray(num_blocks + 1, Uninit))

RECURSIVE WriteBlockLoop(_, _, _, _, _)
WriteBlockLoop(d, i, block_end, local_total, pre) ==
  IF i < block_end
  THEN WriteBlockLoop(d, i + 1, block_end, local_total + d[i],
                      [pre EXCEPT ![i] = local_total])
  ELSE pre

\* A block written from 0 instead of from the blocks before it.
WriteBlockFromZero(d, bulk, block, pre) ==
  WriteBlockLoop(d, BlockBegin(block), BlockEnd(d, block), 0, pre)

\* The second parallel loop's body: one block's entries of prefix.
WriteBlock(d, bulk, block, pre) ==
  WriteBlockLoop(d, BlockBegin(block), BlockEnd(d, block), bulk[block], pre)

RECURSIVE WriteBlocks(_, _, _, _)
WriteBlocks(d, bulk, block, pre) ==
  IF block < NumBlocks(d)
  THEN WriteBlocks(d, bulk, block + 1, WriteBlock(d, bulk, block, pre))
  ELSE pre

\* The blocks write disjoint entries, so the loops are run in block order
\* here; SpecPrefix runs them in every order.
ParallelPrefixSum(d) ==
  LET num_blocks == NumBlocks(d)
      lsums == [block \in 0..(num_blocks - 1) |-> LocalSum(d, block)]
      bulk == BulkPrefix(lsums, num_blocks)
      pre == WriteBlocks(d, bulk, 0, NewArray(Size(d) + 1, Uninit))
  IN  [pre EXCEPT ![Size(d)] = bulk[num_blocks]]

\* --------------------------------------------------------------- CSRGraph
\* index[n] = neighs + offsets[n]
GenIndex(offs) == [n \in 0..(Size(offs) - 1) |-> offs[n]]

\* The entries of [idx[n], idx[n+1]) as a sequence.
Slice(idx, ns, n) == [k \in 1..(idx[n + 1] - idx[n]) |-> ns[idx[n] + k - 1]]

Side(t) == IF t THEN "in" ELSE "out"

DefaultGraph == [num_nodes |-> NoNumNodes, directed |-> FALSE]

\* The status of a process that runs: none.  One that has ended has <<status>>.
NoExit == <<>>
\* No iterator, no evaluation.  One that has been made is <<record>>.
NoIterator == <<>>

\* ------------------------------------------------------------------- Init
\* No prefix sum is run by itself.
PrefixIdle ==
  /\ ps_pc = "Idle"
  /\ ps_degrees = NullPtr
  /\ sums = NullPtr
  /\ local_sums = NullPtr
  /\ bulk_prefix = NullPtr
  /\ prefix = NullPtr
  /\ blk_pc = NullPtr

\* No RelabelByDegree is run by itself.
RelabelIdle ==
  /\ rl_pc = "Idle"
  /\ rg = [num_nodes |-> 0, directed |-> FALSE, index |-> NewArray(1, 0),
           neighs |-> NullPtr]
  /\ degree_id_pairs = NullPtr
  /\ rl_degrees = NullPtr
  /\ new_ids = NullPtr
  /\ rl_offsets = NullPtr
  /\ rl_index = NullPtr
  /\ rl_neighs = NullPtr
  /\ u_pc = NullPtr
  /\ rl_result = DefaultGraph
  /\ cout = <<>>
  /\ exit_status = NoExit

\* No bucket is in use.
BucketIdle ==
  /\ b_pc = "Idle"
  /\ chunks_ = <<>>
  /\ num_elements_ = 0
  /\ v = <<>>
  /\ v0 = <<>>
  /\ p_pc = <<>>
  /\ it = NoIterator
  /\ walk = <<>>
  /\ cmp = NoIterator

\* No source is given, no iterator arithmetic is done, no calls are made.
NoSource == source = "none"

ArithIdle ==
  /\ a_pc = "Idle"
  /\ chunks_ref_ = <<>>
  /\ pos = NoIterator
  /\ dist = NoIterator
  /\ adv = NoIterator

CallsIdle ==
  /\ bucket = [chunks_ |-> <<>>, num_elements_ |-> 0]
  /\ other = [chunks_ |-> <<>>, num_elements_ |-> 0]
  /\ calls = 0

\* A builder just constructed, about to run MakeGraph on an edge list.
BuilderStart(start, lists) ==
  /\ pc = start
  /\ el \in lists
  /\ symmetrize_ \in BOOLEAN
  /\ invert \in BOOLEAN
  /\ num_nodes_ = NoNumNodes
  /\ transpose = FALSE
  /\ degrees = NullPtr
  /\ offsets = NullPtr
  /\ index = [s \in Sides |-> NullPtr]
  /\ neighs = [s \in Sides |-> NullPtr]
  /\ it_pc = [i \in 1..Len(el) |-> 0]
  /\ slot_u = [i \in 1..Len(el) |-> Uninit]
  /\ slot_v = [i \in 1..Len(el) |-> Uninit]
  /\ writes = NullPtr
  /\ g = DefaultGraph
  /\ sq_transpose = FALSE
  /\ diffs = NullPtr
  /\ sq_offsets = NullPtr
  /\ sq_index = [s \in Sides |-> NullPtr]
  /\ sq_neighs = [s \in Sides |-> NullPtr]
  /\ n_pc = NullPtr
  /\ pre_squish = [s \in Sides |-> NullPtr]
  /\ result = DefaultGraph

\* No builder runs.
BuilderIdle == BuilderStart("Idle", {<<>>}) /\ ~symmetrize_ /\ ~invert

InitBuilder ==
  /\ BuilderStart("MakeGraph", EdgeLists) /\ PrefixIdle /\ RelabelIdle /\ BucketIdle
  /\ NoSource /\ ArithIdle /\ CallsIdle


\* ------------------------------------------------------------ CountDegrees
\* The two conditions of the loop body, for an edge's source and destination.
CountsSource(sym, t) == sym \/ (~sym /\ ~t)
\* A second if that is taken only for the transposed graph.
CountsDestTransposedOnly(sym, t) == ~sym /\ t
CountsDest(sym, t) == sym \/ (~sym /\ t)

\* fetch_and_add(a[k], 1): the new array; the value returned is a[k].
FetchAndAdd(a, k) == [a EXCEPT ![k] = @ + 1]

AllIterations(step) == \A i \in DOMAIN it_pc : it_pc[i] = step

\* An iteration is at its first if (it_pc 0), past it (1) or finished (2).  An
\* if whose condition is false shares nothing and is passed together with
\* the step that follows it.
AtSecondIf(i, first) == it_pc[i] = 1 \/ (it_pc[i] = 0 /\ ~first)
PastFirstIf(second) == IF second THEN 1 ELSE 2

\* MakeGraph up to the first parallel region: the edge list is in el;
\* MakeGraphFromEL finds the node count and MakeCSR(el, false, ...) enters
\* CountDegrees, which allocates the zeroed degree array.
MakeGraphFromEL ==
  /\ pc = "MakeGraph"
  /\ num_nodes_' = IF num_nodes_ = NoNumNodes THEN FindMaxNodeID(el) + 1
                   ELSE num_nodes_
  /\ transpose' = FALSE
  /\ degrees' = NewArray(num_nodes_', 0)
  /\ it_pc' = [i \in 1..Len(el) |-> 0]
  /\ pc' = "CountDegrees"
  /\ UNCHANGED <<el, symmetrize_, invert, offsets, index, neighs, slot_u,
                 slot_v, writes, g, sq_transpose, diffs, sq_offsets, sq_index,
                 sq_neighs, n_pc, pre_squish, result,
                 notBuilderVars>>

\* One iteration's first if.
CountDegreesSource(i) ==
  /\ pc = "CountDegrees"
  /\ it_pc[i] = 0
  /\ CountsSource(symmetrize_, transpose)
  /\ degrees' = FetchAndAdd(degrees, el[i][1])
  /\ it_pc' = [it_pc EXCEPT ![i] = PastFirstIf(CountsDest(symmetrize_, transpose))]
  /\ UNCHANGED <<pc, el, symmetrize_, invert, num_nodes_, transpose, offsets,
                 index, neighs, slot_u, slot_v, writes, g, sq_transpose,
                 diffs, sq_offsets, sq_index, sq_neighs, n_pc, pre_squish,
                 result,
                 notBuilderVars>>

\* One iteration's second if.
CountDegreesDest(i) ==
  /\ pc = "CountDegrees"
  /\ AtSecondIf(i, CountsSource(symmetrize_, transpose))
  /\ degrees' = IF CountsDest(symmetrize_, transpose)
                THEN FetchAndAdd(degrees, el[i][2]) ELSE degrees
  /\ it_pc' = [it_pc EXCEPT ![i] = 2]
  /\ UNCHANGED <<pc, el, symmetrize_, invert, num_nodes_, transpose, offsets,
                 index, neighs, slot_u, slot_v, writes, g, sq_transpose,
                 diffs, sq_offsets, sq_index, sq_neighs, n_pc, pre_squish,
                 result,
                 notBuilderVars>>

\* ----------------------------------------------------------------- MakeCSR
ScatterForward(sym, t) == sym \/ (~sym /\ ~t)
\* A second if that is taken only for the transposed graph.
ScatterReverseTransposedOnly(sym, t) == ~sym /\ t
ScatterReverse(sym, t) == sym \/ (~sym /\ t)

\* GetSource(e) of an unweighted edge.
GetSource(e) == e[1]

\* After CountDegrees' barrier: the offsets, the neighbor array, the index.
\* A MakeCSR that leaves the index to be built after the scatter.
MakeCSRAllocateIndexLater ==
  /\ pc = "CountDegrees"
  /\ AllIterations(2)
  /\ offsets' = ParallelPrefixSum(degrees)
  /\ neighs' = [neighs EXCEPT
                  ![Side(transpose)] = NewArray(offsets'[num_nodes_], Uninit)]
  /\ writes' = NewArray(offsets'[num_nodes_], 0)
  /\ it_pc' = [i \in 1..Len(el) |-> 0]
  /\ slot_u' = [i \in 1..Len(el) |-> Uninit]
  /\ slot_v' = [i \in 1..Len(el) |-> Uninit]
  /\ pc' = "Scatter"
  /\ UNCHANGED <<el, symmetrize_, invert, num_nodes_, transpose, degrees, g,
                 sq_transpose, diffs, sq_offsets, sq_index, sq_neighs, n_pc,
                 pre_squish, result, index,
                 notBuilderVars>>

MakeCSRAllocate ==
  /\ pc = "CountDegrees"
  /\ AllIterations(2)
  /\ offsets' = ParallelPrefixSum(degrees)
  /\ neighs' = [neighs EXCEPT
                  ![Side(transpose)] = NewArray(offsets'[num_nodes_], Uninit)]
  /\ index' = [index EXCEPT ![Side(transpose)] = GenIndex(offsets')]
  /\ writes' = NewArray(offsets'[num_nodes_], 0)
  /\ it_pc' = [i \in 1..Len(el) |-> 0]
  /\ slot_u' = [i \in 1..Len(el) |-> Uninit]
  /\ slot_v' = [i \in 1..Len(el) |-> Uninit]
  /\ pc' = "Scatter"
  /\ UNCHANGED <<el, symmetrize_, invert, num_nodes_, transpose, degrees, g,
                 sq_transpose, diffs, sq_offsets, sq_index, sq_neighs, n_pc,
                 pre_squish, result,
                 notBuilderVars>>

\* neighs[offsets[k]] = x: a store that leaves the cursor where it was.
ScatterStoreNoAdvance(k, x) ==
  /\ offsets' = offsets
  /\ neighs' = [neighs EXCEPT ![Side(transpose)][offsets[k]] = x]
  /\ writes' = [writes EXCEPT ![offsets[k]] = @ + 1]

\* neighs[fetch_and_add(offsets[k], 1)] = x
ScatterStore(k, x) ==
  /\ offsets' = FetchAndAdd(offsets, k)
  /\ neighs' = [neighs EXCEPT ![Side(transpose)][offsets[k]] = x]
  /\ writes' = [writes EXCEPT ![offsets[k]] = @ + 1]

ScatterSource(i) ==
  /\ pc = "Scatter"
  /\ it_pc[i] = 0
  /\ ScatterForward(symmetrize_, transpose)
  /\ ScatterStore(el[i][1], el[i][2])
  /\ slot_u' = [slot_u EXCEPT ![i] = offsets[el[i][1]]]
  /\ it_pc' = [it_pc EXCEPT ![i] = PastFirstIf(ScatterReverse(symmetrize_, transpose))]
  /\ UNCHANGED <<pc, el, symmetrize_, invert, num_nodes_, transpose, degrees,
                 index, slot_v, g, sq_transpose, diffs, sq_offsets, sq_index,
                 sq_neighs, n_pc, pre_squish, result,
                 notBuilderVars>>

ScatterDest(i) ==
  /\ pc = "Scatter"
  /\ AtSecondIf(i, ScatterForward(symmetrize_, transpose))
  /\ IF ScatterReverse(symmetrize_, transpose)
     THEN /\ ScatterStore(el[i][2], GetSource(el[i]))
          /\ slot_v' = [slot_v EXCEPT ![i] = offsets[el[i][2]]]
     ELSE UNCHANGED <<offsets, neighs, writes, slot_v>>
  /\ it_pc' = [it_pc EXCEPT ![i] = 2]
  /\ UNCHANGED <<pc, el, symmetrize_, invert, num_nodes_, transpose, degrees,
                 index, slot_u, g, sq_transpose, diffs, sq_offsets, sq_index,
                 sq_neighs, n_pc, pre_squish, result,
                 notBuilderVars>>

\* --------------------------------------------------------- MakeGraphFromEL
\* A test that forgets symmetrize_.
BuildsInverseWhenInverting == invert

\* Whether MakeGraphFromEL builds the incoming side too.
BuildsInverse == ~symmetrize_ /\ invert

\* After the first MakeCSR's barrier: MakeCSR(el, true, ...) enters
\* CountDegrees.
MakeCSRTranspose ==
  /\ pc = "Scatter"
  /\ AllIterations(2)
  /\ ~transpose
  /\ BuildsInverse
  /\ transpose' = TRUE
  /\ degrees' = NewArray(num_nodes_, 0)
  /\ it_pc' = [i \in 1..Len(el) |-> 0]
  /\ pc' = "CountDegrees"
  /\ UNCHANGED <<el, symmetrize_, invert, num_nodes_, offsets, index, neighs,
                 slot_u, slot_v, writes, g, sq_transpose, diffs, sq_offsets,
                 sq_index, sq_neighs, n_pc, pre_squish, result,
                 notBuilderVars>>

\* The ids in the slices of the sides that were built.
SliceSets ==
  [s \in Sides |->
     IF index[s] = NullPtr THEN NullPtr
     ELSE [n \in 0..(num_nodes_ - 1) |->
             {neighs[s][k] : k \in index[s][n]..(index[s][n + 1] - 1)}]]

\* After the last MakeCSR's barrier: MakeCSR's arrays are gone,
\* MakeGraphFromEL returns the graph, and SquishGraph calls
\* SquishCSR(g, false, ...), which allocates diffs.
SquishGraph ==
  /\ pc = "Scatter"
  /\ AllIterations(2)
  /\ transpose \/ ~BuildsInverse
  /\ g' = [num_nodes |-> num_nodes_, directed |-> ~symmetrize_]
  /\ degrees' = NullPtr
  /\ offsets' = NullPtr
  /\ writes' = NullPtr
  /\ it_pc' = NullPtr
  /\ slot_u' = NullPtr
  /\ slot_v' = NullPtr
  /\ sq_transpose' = FALSE
  /\ diffs' = NewArray(num_nodes_, Uninit)
  /\ n_pc' = NewArray(num_nodes_, 0)
  /\ pre_squish' = SliceSets
  /\ pc' = "SquishCSR"
  /\ UNCHANGED <<el, symmetrize_, invert, num_nodes_, transpose, index,
                 neighs, sq_offsets, sq_index, sq_neighs, result,
                 notBuilderVars>>

\* --------------------------------------------------------------- SquishCSR
RECURSIVE Insert(_, _)
Insert(s, x) ==
  IF s = <<>> THEN <<x>>
  ELSE IF x < Head(s) THEN <<x>> \o s
  ELSE <<Head(s)>> \o Insert(Tail(s), x)

\* No std::sort at all.
SortNone(s) == s

RECURSIVE Sort(_)
\* std::sort: the entries in ascending order.
Sort(s) == IF s = <<>> THEN <<>> ELSE Insert(Sort(Tail(s)), Head(s))

\* No std::unique at all.
UniqueNone(s) == s

RECURSIVE Unique(_)
\* std::unique: of every run of equal entries the first one.
Unique(s) ==
  IF Len(s) <= 1 THEN s
  ELSE IF s[1] = s[2] THEN Unique(Tail(s))
  ELSE <<s[1]>> \o Unique(Tail(s))

RECURSIVE Remove(_, _)
\* std::remove: the entries other than x, in their order.
Remove(s, x) ==
  IF s = <<>> THEN <<>>
  ELSE IF Head(s) = x THEN Remove(Tail(s), x)
  ELSE <<Head(s)>> \o Remove(Tail(s), x)

\* What sort, unique and remove make of node n's slice s: the entries kept.
Squished(s, n) == Remove(Unique(Sort(s)), n)

\* The slice's storage after the three calls: the entries kept, then what
\* unique and remove left behind them (they only move entries forward).
SquishedInPlace(s, n) ==
  LET sorted == Sort(s)
      uniq == Unique(sorted)
      kept == Remove(uniq, n)
  IN  kept \o SubSeq(uniq, Len(kept) + 1, Len(uniq))
           \o SubSeq(sorted, Len(uniq) + 1, Len(sorted))

\* a with seq stored from position start on.
StoreAt(a, start, seq) ==
  [k \in DOMAIN a |-> IF start <= k /\ k < start + Len(seq)
                      THEN seq[k - start + 1] ELSE a[k]]

AllNodes(step) == \A n \in DOMAIN n_pc : n_pc[n] = step

\* One iteration of the first parallel loop.
SquishSort(n) ==
  /\ pc = "SquishCSR"
  /\ n_pc[n] = 0
  /\ LET side == Side(sq_transpose)
         n_start == index[side][n]
         slice == Slice(index[side], neighs[side], n)
     IN  /\ neighs' = [neighs EXCEPT
                         ![side] = StoreAt(neighs[side], n_start,
                                           SquishedInPlace(slice, n))]
         /\ diffs' = [diffs EXCEPT ![n] = Len(Squished(slice, n))]
  /\ n_pc' = [n_pc EXCEPT ![n] = 1]
  /\ UNCHANGED <<pc, el, symmetrize_, invert, num_nodes_, transpose, degrees,
                 offsets, index, it_pc, slot_u, slot_v, writes, g,
                 sq_transpose, sq_offsets, sq_index, sq_neighs, pre_squish,
                 result,
                 notBuilderVars>>

\* After the first loop's barrier: the new offsets, neighbor array and index.
SquishAllocate ==
  /\ pc = "SquishCSR"
  /\ AllNodes(1)
  /\ sq_offsets' = ParallelPrefixSum(diffs)
  /\ sq_neighs' = [sq_neighs EXCEPT
                     ![Side(sq_transpose)] =
                        NewArray(sq_offsets'[g.num_nodes], Uninit)]
  /\ sq_index' = [sq_index EXCEPT ![Side(sq_transpose)] = GenIndex(sq_offsets')]
  /\ pc' = "SquishCopy"
  /\ UNCHANGED <<el, symmetrize_, invert, num_nodes_, transpose, degrees,
                 offsets, index, neighs, it_pc, slot_u, slot_v, writes, g,
                 sq_transpose, diffs, n_pc, pre_squish, result,
                 notBuilderVars>>

\* One iteration of the second parallel loop.
SquishCopy(n) ==
  /\ pc = "SquishCopy"
  /\ n_pc[n] = 1
  /\ LET side == Side(sq_transpose)
         n_start == index[side][n]
         copied == [k \in 1..diffs[n] |-> neighs[side][n_start + k - 1]]
     IN  sq_neighs' = [sq_neighs EXCEPT
                         ![side] = StoreAt(sq_neighs[side], sq_index[side][n],
                                           copied)]
  /\ n_pc' = [n_pc EXCEPT ![n] = 2]
  /\ UNCHANGED <<pc, el, symmetrize_, invert, num_nodes_, transpose, degrees,
                 offsets, index, neighs, it_pc, slot_u, slot_v, writes, g,
                 sq_transpose, diffs, sq_offsets, sq_index, pre_squish,
                 result,
                 notBuilderVars>>

\* ------------------------------------------------------------- SquishGraph
\* Whether SquishGraph cleans the incoming side too.
SquishesInverse == g.directed /\ invert

\* After the second loop's barrier of the outgoing side:
\* SquishCSR(g, true, ...).
SquishCSRTranspose ==
  /\ pc = "SquishCopy"
  /\ AllNodes(2)
  /\ ~sq_transpose
  /\ SquishesInverse
  /\ sq_transpose' = TRUE
  /\ diffs' = NewArray(g.num_nodes, Uninit)
  /\ n_pc' = NewArray(g.num_nodes, 0)
  /\ pc' = "SquishCSR"
  /\ UNCHANGED <<el, symmetrize_, invert, num_nodes_, transpose, degrees,
                 offsets, index, neighs, it_pc, slot_u, slot_v, writes, g,
                 sq_offsets, sq_index, sq_neighs, pre_squish, result,
                 notBuilderVars>>

\* After the last SquishCSR: SquishGraph, and with it MakeGraph, returns the
\* graph made of sq_index and sq_neighs.
MakeGraphReturn ==
  /\ pc = "SquishCopy"
  /\ AllNodes(2)
  /\ sq_transpose \/ ~SquishesInverse
  /\ result' = [num_nodes |-> g.num_nodes, directed |-> g.directed]
  /\ pc' = "Done"
  /\ UNCHANGED <<el, symmetrize_, invert, num_nodes_, transpose, degrees,
                 offsets, index, neighs, it_pc, slot_u, slot_v, writes, g,
                 sq_transpose, diffs, sq_offsets, sq_index, sq_neighs, n_pc,
                 pre_squish,
                 notBuilderVars>>

\* ------------------------------------------------------------ SpecBuilder
NextBuilder ==
  \/ MakeGraphFromEL
  \/ \E i \in DOMAIN it_pc : CountDegreesSource(i)
  \/ \E i \in DOMAIN it_pc : CountDegreesDest(i)
  \/ MakeCSRAllocate
  \/ \E i \in DOMAIN it_pc : ScatterSource(i)
  \/ \E i \in DOMAIN it_pc : ScatterDest(i)
  \/ MakeCSRTranspose
  \/ SquishGraph
  \/ \E n \in DOMAIN n_pc : SquishSort(n)
  \/ SquishAllocate
  \/ \E n \in DOMAIN n_pc : SquishCopy(n)
  \/ SquishCSRTranspose
  \/ MakeGraphReturn

SpecBuilder == InitBuilder /\ [][NextBuilder]_vars

\* ------------------------------------------------------------- SpecPrefix
DegreeArrays ==
  UNION {[0..(n - 1) -> 0..MaxDegree] : n \in 0..MaxPrefixLen}

InitPrefix ==
  /\ NoSource /\ ArithIdle /\ CallsIdle
  /\ BuilderIdle
  /\ RelabelIdle
  /\ BucketIdle
  /\ ps_pc = "PrefixSum"
  /\ ps_degrees \in DegreeArrays
  /\ sums = NullPtr
  /\ local_sums = NullPtr
  /\ bulk_prefix = NullPtr
  /\ prefix = NullPtr
  /\ blk_pc = NullPtr

AllBlocks(step) == \A block \in DOMAIN blk_pc : blk_pc[block] = step

\* PrefixSum(degrees), and then ParallelPrefixSum(degrees) up to its first
\* parallel loop.
RunPrefixSum ==
  /\ ps_pc = "PrefixSum"
  /\ sums' = PrefixSum(ps_degrees)
  /\ local_sums' = NewArray(NumBlocks(ps_degrees), Uninit)
  /\ blk_pc' = NewArray(NumBlocks(ps_degrees), 0)
  /\ ps_pc' = "LocalSums"
  /\ UNCHANGED <<ps_degrees, bulk_prefix, prefix, notPrefixVars>>

\* One iteration of the first parallel loop.
SumBlock(block) ==
  /\ ps_pc = "LocalSums"
  /\ blk_pc[block] = 0
  /\ local_sums' = [local_sums EXCEPT ![block] = LocalSum(ps_degrees, block)]
  /\ blk_pc' = [blk_pc EXCEPT ![block] = 1]
  /\ UNCHANGED <<ps_pc, ps_degrees, sums, bulk_prefix, prefix, notPrefixVars>>

\* After the first loop's barrier: the serial loop, and prefix is allocated.
SumBlockSums ==
  /\ ps_pc = "LocalSums"
  /\ AllBlocks(1)
  /\ bulk_prefix' = BulkPrefix(local_sums, NumBlocks(ps_degrees))
  /\ prefix' = NewArray(Size(ps_degrees) + 1, Uninit)
  /\ ps_pc' = "WriteBlocks"
  /\ UNCHANGED <<ps_degrees, sums, local_sums, blk_pc, notPrefixVars>>

\* One iteration of the second parallel loop.
WritePrefixBlock(block) ==
  /\ ps_pc = "WriteBlocks"
  /\ blk_pc[block] = 1
  /\ prefix' = WriteBlock(ps_degrees, bulk_prefix, block, prefix)
  /\ blk_pc' = [blk_pc EXCEPT ![block] = 2]
  /\ UNCHANGED <<ps_pc, ps_degrees, sums, local_sums, bulk_prefix,
                 notPrefixVars>>

\* After the second loop's barrier: the last entry, and the return.
ParallelPrefixSumReturn ==
  /\ ps_pc = "WriteBlocks"
  /\ AllBlocks(2)
  /\ prefix' = [prefix EXCEPT
                  ![Size(ps_degrees)] = bulk_prefix[NumBlocks(ps_degrees)]]
  /\ ps_pc' = "Done"
  /\ UNCHANGED <<ps_degrees, sums, local_sums, bulk_prefix, blk_pc,
                 notPrefixVars>>

NextPrefix ==
  \/ RunPrefixSum
  \/ \E block \in DOMAIN blk_pc : SumBlock(block)
  \/ SumBlockSums
  \/ \E block \in DOMAIN blk_pc : WritePrefixBlock(block)
  \/ ParallelPrefixSumReturn

SpecPrefix == InitPrefix /\ [][NextPrefix]_vars

\* ------------------------------------------------------------------ claims
\* The sequence's entries.
Range(f) == {f[x] : x \in DOMAIN f}

\* Whether MakeCSR's pass places an edge by its source, by its destination.
PlacesBySource == symmetrize_ \/ ~transpose
PlacesByDest == symmetrize_ \/ transpose

\* The iterations of the edges that are counted at, or placed in the slice
\* of, node n.
BySource(n) == {i \in 1..Len(el) : PlacesBySource /\ el[i][1] = n}
ByDest(n) == {i \in 1..Len(el) : PlacesByDest /\ el[i][2] = n}

\* The prefix sum of the degree array, which the scatter leaves as it is.
Offset0 == PrefixSum(degrees)

ScatterEnded == pc = "Scatter" /\ AllIterations(2)

\* C1: in every state of the scatter no neighbor slot has been stored into
\* twice and no two stores of the iterations went to one slot; every store
\* of an edge (u,v) by its source went into u's slice of the original offsets
\* and stored v, every store by its destination went into v's slice and
\* stored u; when all iterations have ended every slot of [0, offset0[N]) has
\* been stored into exactly once and every edge has been placed on every side
\* the pass places it on.
C1_ScatterSlotsUnique ==
  pc = "Scatter" =>
    /\ DOMAIN writes = 0..(Offset0[num_nodes_] - 1)
    /\ DOMAIN neighs[Side(transpose)] = DOMAIN writes
    /\ \A k \in DOMAIN writes : writes[k] <= 1
    /\ \A i \in 1..Len(el) :
         /\ slot_u[i] # Uninit =>
              /\ PlacesBySource
              /\ Offset0[el[i][1]] <= slot_u[i]
              /\ slot_u[i] < Offset0[el[i][1] + 1]
              /\ neighs[Side(transpose)][slot_u[i]] = el[i][2]
         /\ slot_v[i] # Uninit =>
              /\ PlacesByDest
              /\ Offset0[el[i][2]] <= slot_v[i]
              /\ slot_v[i] < Offset0[el[i][2] + 1]
              /\ neighs[Side(transpose)][slot_v[i]] = el[i][1]
         /\ slot_u[i] # Uninit => slot_u[i] # slot_v[i]
         /\ \A j \in 1..Len(el) :
              /\ (i # j /\ slot_u[i] # Uninit) => slot_u[i] # slot_u[j]
              /\ (i # j /\ slot_v[i] # Uninit) => slot_v[i] # slot_v[j]
              /\ slot_u[i] # Uninit => slot_u[i] # slot_v[j]
    /\ AllIterations(2) =>
         /\ \A k \in DOMAIN writes : writes[k] = 1
         /\ \A i \in 1..Len(el) :
              /\ PlacesBySource <=> slot_u[i] # Uninit
              /\ PlacesByDest <=> slot_v[i] # Uninit

\* Two edges of one source were placed, the later edge before the earlier,
\* on the transposed pass's side as well as when symmetrizing.
C1_Witness ==
  /\ ScatterEnded
  /\ symmetrize_
  /\ Len(el) = 2
  /\ el[1][1] = el[2][1]
  /\ slot_u[2] < slot_u[1]
  /\ slot_v[1] # Uninit

CountEnded == (pc = "CountDegrees" /\ AllIterations(2)) \/ pc = "Scatter"

\* C2: when the parallel region of CountDegrees has ended, the degrees add up
\* to 2*|el| when symmetrizing and to |el| otherwise, and degree[n] is the
\* number of edges with source n (counted unless only transposing) plus the
\* number of edges with destination n (counted unless only not transposing).
C2_DegreesCountEndpoints ==
  CountEnded =>
    /\ DOMAIN degrees = 0..(num_nodes_ - 1)
    /\ SumRange(degrees, 0, num_nodes_)
         = (IF symmetrize_ THEN 2 * Len(el) ELSE Len(el))
    /\ \A n \in DOMAIN degrees :
         degrees[n] = Cardinality(BySource(n)) + Cardinality(ByDest(n))

\* A self-loop and another edge of its node were counted when symmetrizing:
\* three increments of one entry.
C2_Witness ==
  /\ pc = "CountDegrees"
  /\ AllIterations(2)
  /\ symmetrize_
  /\ \E n \in DOMAIN degrees : degrees[n] = 3

\* C3: when both have returned, ParallelPrefixSum's array is PrefixSum's, of
\* length N+1, 0 at 0, each entry the one before plus its degree, and so
\* non-decreasing, in whatever order the blocks were processed (which is also
\* what processing them in block order gives).
C3_PrefixSumsAgree ==
  ps_pc = "Done" =>
    /\ prefix = sums
    /\ prefix = ParallelPrefixSum(ps_degrees)
    /\ DOMAIN prefix = 0..Size(ps_degrees)
    /\ DOMAIN sums = 0..Size(ps_degrees)
    /\ prefix[0] = 0
    /\ \A i \in DOMAIN ps_degrees : prefix[i + 1] = prefix[i] + ps_degrees[i]
    /\ \A i \in DOMAIN ps_degrees : prefix[i] <= prefix[i + 1]

\* An array of several blocks that ends inside a block, with a degree in its
\* first and in its last block.
C3_Witness ==
  /\ ps_pc = "Done"
  /\ NumBlocks(ps_degrees) >= 2
  /\ Size(ps_degrees) % BlockSize # 0
  /\ ps_degrees[0] > 0
  /\ ps_degrees[Size(ps_degrees) - 1] > 0

\* The sides SquishCSR has finished.
SquishedSides ==
  {s \in Sides :
     \/ pc = "Done" /\ (s = "out" \/ SquishesInverse)
     \/ pc = "SquishCopy" /\ AllNodes(2) /\ s = Side(sq_transpose)
     \/ pc \in {"SquishCSR", "SquishCopy"} /\ sq_transpose /\ s = "out"}

StrictlyAscending(s) == \A k \in 1..(Len(s) - 1) : s[k] < s[k + 1]

\* C4: of every side SquishCSR has finished, every node n's new slice is
\* strictly ascending (so without duplicates), holds no n, holds exactly the
\* ids other than n of n's slice before, and the new neighbor array is no
\* longer than the one before.
C4_SquishPostcondition ==
  \A s \in SquishedSides :
    /\ DOMAIN sq_index[s] = 0..g.num_nodes
    /\ \A n \in 0..(g.num_nodes - 1) :
         LET slice == Slice(sq_index[s], sq_neighs[s], n)
         IN  /\ StrictlyAscending(slice)
             /\ n \notin Range(slice)
             /\ Range(slice) = pre_squish[s][n] \ {n}
    /\ Size(sq_neighs[s]) = sq_index[s][g.num_nodes]
    /\ Size(sq_neighs[s]) <= Size(neighs[s])

\* Both sides of a directed graph are squished; a node's incoming slice lost
\* its self-loop, another's lost a duplicate and kept an entry, and a node's
\* outgoing slice lost a duplicate.
C4_Witness ==
  /\ pc = "Done"
  /\ SquishedSides = Sides
  /\ \E n \in 0..(g.num_nodes - 1) :
       /\ n \in pre_squish["in"][n]
       /\ sq_index["in"][n + 1] - sq_index["in"][n]
            < index["in"][n + 1] - index["in"][n]
  /\ \E n \in 0..(g.num_nodes - 1) :
       /\ n \notin pre_squish["in"][n]
       /\ sq_index["in"][n + 1] - sq_index["in"][n] = 1
       /\ index["in"][n + 1] - index["in"][n] = 2
  /\ \E n \in 0..(g.num_nodes - 1) :
       /\ Cardinality(pre_squish["out"][n]) = 1
       /\ index["out"][n + 1] - index["out"][n] = 2

\* The nodes an edge list joins to n, in either direction.
Adjacent(n) ==
  {m \in NodeIDs : m # n /\ \E i \in 1..Len(el) : el[i] \in {<<n, m>>, <<m, n>>}}

Endpoints == UNION {{el[i][1], el[i][2]} : i \in 1..Len(el)}

\* C5: the graph MakeGraph returns for a non-empty edge list when
\* symmetrizing has (largest endpoint + 1) nodes, is undirected, and node n's
\* slice is the ascending list of the nodes other than n that an edge joins
\* to n; the scenario's edge list gives 3 nodes, slices [1], [0], [] and a
\* neighbor array of length 2.
C5_SymmetrizedBuild ==
  (pc = "Done" /\ symmetrize_ /\ el # <<>>) =>
    /\ \A m \in Endpoints : m < result.num_nodes
    /\ result.num_nodes - 1 \in Endpoints
    /\ ~result.directed
    /\ DOMAIN sq_index["out"] = 0..result.num_nodes
    /\ \A n \in 0..(result.num_nodes - 1) :
         LET slice == Slice(sq_index["out"], sq_neighs["out"], n)
         IN  /\ StrictlyAscending(slice)
             /\ Range(slice) = Adjacent(n)
    /\ el = ScenarioEL =>
         /\ result.num_nodes = 3
         /\ Slice(sq_index["out"], sq_neighs["out"], 0) = <<1>>
         /\ Slice(sq_index["out"], sq_neighs["out"], 1) = <<0>>
         /\ Slice(sq_index["out"], sq_neighs["out"], 2) = <<>>
         /\ Size(sq_neighs["out"]) = 2

\* The scenario's graph has been returned.
C5_Witness ==
  /\ pc = "Done"
  /\ symmetrize_
  /\ el = ScenarioEL
  /\ Size(sq_neighs["out"]) = 2

\* C6: MakeGraph on an empty edge list returns a graph of zero nodes and zero
\* edges, its arrays sized for zero nodes.
C6_EmptyEdgeListZeroNodes ==
  (el = <<>> /\ pc # "MakeGraph") =>
    /\ num_nodes_ = 0
    /\ pc = "Done" =>
         /\ result.num_nodes = 0
         /\ Size(sq_index["out"]) = 1
         /\ Size(sq_neighs["out"]) = 0

\* --------------------------------------------------------- RelabelByDegree
\* g.out_degree(n) and g.out_neigh(n) of the argument.
OutDegree(gr, n) == gr.index[n + 1] - gr.index[n]
OutNeigh(gr, n) == Slice(gr.index, gr.neighs, n)

\* std::less on degree_node_p.
PairLess(a, b) == a[1] < b[1] \/ (a[1] = b[1] /\ a[2] < b[2])

\* A comparison of the ids alone.
PairGreaterById(a, b) == a[2] > b[2]

\* std::greater on degree_node_p.
PairGreater(a, b) == a[1] > b[1] \/ (a[1] = b[1] /\ a[2] > b[2])

RECURSIVE InsertPair(_, _)
InsertPair(s, x) ==
  IF s = <<>> THEN <<x>>
  ELSE IF PairGreater(x, Head(s)) THEN <<x>> \o s
  ELSE <<Head(s)>> \o InsertPair(Tail(s), x)

RECURSIVE SortPairsSeq(_)
SortPairsSeq(s) ==
  IF s = <<>> THEN <<>> ELSE InsertPair(SortPairsSeq(Tail(s)), Head(s))

\* std::sort(degree_id_pairs.begin(), degree_id_pairs.end(), std::greater).
SortPairs(pairs) ==
  LET sorted == SortPairsSeq([k \in 1..Size(pairs) |-> pairs[k - 1]])
  IN  [n \in DOMAIN pairs |-> sorted[n + 1]]

\* The status a process that called std::exit(code) ends with.
ExitStatus(code) == code % 256

\* The squished adjacencies of n nodes: per node an ascending slice without
\* itself.
RECURSIVE Ascending(_, _)
\* The ascending sequence of the members of a set of numbers up to top.
Ascending(set, top) ==
  IF top < 0 THEN <<>>
  ELSE IF top \in set THEN Append(Ascending(set, top - 1), top)
  ELSE Ascending(set, top - 1)

RECURSIVE Concat(_, _)
\* per[0] \o ... \o per[n-1]
Concat(per, n) == IF n = 0 THEN <<>> ELSE Concat(per, n - 1) \o per[n - 1]

\* The graph of n nodes whose node k has the neighbors adj[k].
GraphOf(n, adj, dir) ==
  LET slices == [k \in 0..(n - 1) |-> Ascending(adj[k], n - 1)]
      all == Concat(slices, n)
  IN  [num_nodes |-> n,
       directed |-> dir,
       index |-> PrefixSum([k \in 0..(n - 1) |-> Len(slices[k])]),
       neighs |-> [k \in 0..(Len(all) - 1) |-> all[k + 1]]]

\* The argument is a squished graph without self-loops, directed or not.
InitRelabel ==
  /\ NoSource /\ ArithIdle /\ CallsIdle
  /\ BuilderIdle
  /\ PrefixIdle
  /\ BucketIdle
  /\ rl_pc = "RelabelByDegree"
  /\ \E n \in 0..MaxRelabelNodes, dir \in BOOLEAN :
       \E adj \in [0..(n - 1) -> SUBSET (0..(n - 1))] :
         /\ \A k \in 0..(n - 1) : k \notin adj[k]
         /\ rg = GraphOf(n, adj, dir)
  /\ degree_id_pairs = NullPtr
  /\ rl_degrees = NullPtr
  /\ new_ids = NullPtr
  /\ rl_offsets = NullPtr
  /\ rl_index = NullPtr
  /\ rl_neighs = NullPtr
  /\ u_pc = NullPtr
  /\ rl_result = DefaultGraph
  /\ cout = <<>>
  /\ exit_status = NoExit

\* A check that lets every graph through.
RelabelRejectsNone(gr) == FALSE

\* The check RelabelByDegree begins with.
RelabelRejects(gr) == gr.directed

\* The fatal path: the message, and std::exit(-11).
RelabelExit ==
  /\ rl_pc = "RelabelByDegree"
  /\ RelabelRejects(rg)
  /\ cout' = Append(cout, "Cannot relabel directed graph")
  /\ exit_status' = <<ExitStatus(ExitCode)>>
  /\ rl_pc' = "Exited"
  /\ UNCHANGED <<rg, degree_id_pairs, rl_degrees, new_ids, rl_offsets,
                 rl_index, rl_neighs, u_pc, rl_result, notRelabelVars>>

AllOfNodes(step) == \A n \in DOMAIN u_pc : u_pc[n] = step

\* Past the check: degree_id_pairs is allocated.
RelabelBegin ==
  /\ rl_pc = "RelabelByDegree"
  /\ ~RelabelRejects(rg)
  /\ degree_id_pairs' = NewArray(rg.num_nodes, Uninit)
  /\ u_pc' = NewArray(rg.num_nodes, 0)
  /\ rl_pc' = "Pairs"
  /\ UNCHANGED <<rg, rl_degrees, new_ids, rl_offsets, rl_index, rl_neighs,
                 rl_result, cout, exit_status, notRelabelVars>>

\* One iteration of the first parallel loop.
MakePair(n) ==
  /\ rl_pc = "Pairs"
  /\ u_pc[n] = 0
  /\ degree_id_pairs' = [degree_id_pairs EXCEPT ![n] = <<OutDegree(rg, n), n>>]
  /\ u_pc' = [u_pc EXCEPT ![n] = 1]
  /\ UNCHANGED <<rl_pc, rg, rl_degrees, new_ids, rl_offsets, rl_index,
                 rl_neighs, rl_result, cout, exit_status, notRelabelVars>>

\* After the first loop's barrier: the sort; degrees and new_ids are
\* allocated.
SortDegreeIdPairs ==
  /\ rl_pc = "Pairs"
  /\ AllOfNodes(1)
  /\ degree_id_pairs' = SortPairs(degree_id_pairs)
  /\ rl_degrees' = NewArray(rg.num_nodes, Uninit)
  /\ new_ids' = NewArray(rg.num_nodes, Uninit)
  /\ u_pc' = NewArray(rg.num_nodes, 0)
  /\ rl_pc' = "NewIds"
  /\ UNCHANGED <<rg, rl_offsets, rl_index, rl_neighs, rl_result, cout,
                 exit_status, notRelabelVars>>

\* One iteration of the second parallel loop.
AssignNewId(n) ==
  /\ rl_pc = "NewIds"
  /\ u_pc[n] = 0
  /\ rl_degrees' = [rl_degrees EXCEPT ![n] = degree_id_pairs[n][1]]
  /\ new_ids' = [new_ids EXCEPT ![degree_id_pairs[n][2]] = n]
  /\ u_pc' = [u_pc EXCEPT ![n] = 1]
  /\ UNCHANGED <<rl_pc, rg, degree_id_pairs, rl_offsets, rl_index, rl_neighs,
                 rl_result, cout, exit_status, notRelabelVars>>

\* After the second loop's barrier: the offsets, the neighbor array, the
\* index.
RelabelAllocate ==
  /\ rl_pc = "NewIds"
  /\ AllOfNodes(1)
  /\ rl_offsets' = ParallelPrefixSum(rl_degrees)
  /\ rl_neighs' = NewArray(rl_offsets'[rg.num_nodes], Uninit)
  /\ rl_index' = GenIndex(rl_offsets')
  /\ u_pc' = NewArray(rg.num_nodes, 0)
  /\ rl_pc' = "Rewrite"
  /\ UNCHANGED <<rg, degree_id_pairs, rl_degrees, new_ids, rl_result, cout,
                 exit_status, notRelabelVars>>

\* An inner loop that takes the cursor of u, not of new_ids[u]:
\* neighs[offsets[u]++] = new_ids[v]
RewriteNeighborAtOldId(u) ==
  /\ rl_pc = "Rewrite"
  /\ u_pc[u] < OutDegree(rg, u)
  /\ LET vv == OutNeigh(rg, u)[u_pc[u] + 1]
     IN  rl_neighs' = [k \in DOMAIN rl_neighs |->
                         IF k = rl_offsets[u] THEN new_ids[vv]
                         ELSE rl_neighs[k]]
  /\ rl_offsets' = [rl_offsets EXCEPT ![u] = @ + 1]
  /\ u_pc' = [u_pc EXCEPT ![u] = @ + 1]
  /\ UNCHANGED <<rl_pc, rg, degree_id_pairs, rl_degrees, new_ids, rl_index,
                 rl_result, cout, exit_status, notRelabelVars>>

\* One iteration of the third loop's inner loop; u_pc[u] counts the
\* neighbors of u written.
\* neighs[offsets[new_ids[u]]++] = new_ids[v]
RewriteNeighbor(u) ==
  /\ rl_pc = "Rewrite"
  /\ u_pc[u] < OutDegree(rg, u)
  /\ LET vv == OutNeigh(rg, u)[u_pc[u] + 1]
     IN  rl_neighs' = [rl_neighs EXCEPT ![rl_offsets[new_ids[u]]] = new_ids[vv]]
  /\ rl_offsets' = [rl_offsets EXCEPT ![new_ids[u]] = @ + 1]
  /\ u_pc' = [u_pc EXCEPT ![u] = @ + 1]
  /\ UNCHANGED <<rl_pc, rg, degree_id_pairs, rl_degrees, new_ids, rl_index,
                 rl_result, cout, exit_status, notRelabelVars>>

\* The end of one iteration of the third loop.
\* std::sort(index[new_ids[u]], index[new_ids[u]+1])
SortNewSlice(u) ==
  /\ rl_pc = "Rewrite"
  /\ u_pc[u] = OutDegree(rg, u)
  /\ rl_neighs' = StoreAt(rl_neighs, rl_index[new_ids[u]],
                          Sort(Slice(rl_index, rl_neighs, new_ids[u])))
  /\ u_pc' = [u_pc EXCEPT ![u] = @ + 1]
  /\ UNCHANGED <<rl_pc, rg, degree_id_pairs, rl_degrees, new_ids, rl_offsets,
                 rl_index, rl_result, cout, exit_status, notRelabelVars>>

\* After the third loop's barrier: the undirected graph of index and neighs.
RelabelReturn ==
  /\ rl_pc = "Rewrite"
  /\ \A u \in DOMAIN u_pc : u_pc[u] = OutDegree(rg, u) + 1
  /\ rl_result' = [num_nodes |-> rg.num_nodes, directed |-> FALSE]
  /\ rl_pc' = "Done"
  /\ UNCHANGED <<rg, degree_id_pairs, rl_degrees, new_ids, rl_offsets,
                 rl_index, rl_neighs, u_pc, cout, exit_status, notRelabelVars>>

NextRelabel ==
  \/ RelabelExit
  \/ RelabelBegin
  \/ \E n \in DOMAIN u_pc : MakePair(n)
  \/ SortDegreeIdPairs
  \/ \E n \in DOMAIN u_pc : AssignNewId(n)
  \/ RelabelAllocate
  \/ \E u \in DOMAIN u_pc : RewriteNeighbor(u)
  \/ \E u \in DOMAIN u_pc : SortNewSlice(u)
  \/ RelabelReturn

SpecRelabel == InitRelabel /\ [][NextRelabel]_vars

\* The number of entries of s that are x.
Count(x, s) == Cardinality({k \in 1..Len(s) : s[k] = x})

\* C7: when RelabelByDegree has returned, new_ids maps 0..N-1 onto 0..N-1,
\* the slice of new_ids[u] in the new graph holds new_ids[v] as many times as
\* u's slice in the argument holds v, for all u and v, and the node that got
\* the new id 0 has the largest out-degree of the argument.
C7_RelabelPreservesEdges ==
  rl_pc = "Done" =>
    LET N == rg.num_nodes
    IN  /\ DOMAIN new_ids = 0..(N - 1)
        /\ Range(new_ids) = 0..(N - 1)
        /\ rl_result = [num_nodes |-> N, directed |-> FALSE]
        /\ DOMAIN rl_index = 0..N
        /\ Size(rl_neighs) = Size(rg.neighs)
        /\ \A u, w \in 0..(N - 1) :
             Count(new_ids[w], Slice(rl_index, rl_neighs, new_ids[u]))
               = Count(w, OutNeigh(rg, u))
        /\ \A u, n \in 0..(N - 1) :
             new_ids[u] = 0 => OutDegree(rg, u) >= OutDegree(rg, n)

\* A graph of three nodes of three different degrees has been relabelled, and
\* no node kept its id.
C7_Witness ==
  /\ rl_pc = "Done"
  /\ rg.num_nodes = 3
  /\ \A u \in 0..2 : new_ids[u] # u
  /\ {OutDegree(rg, u) : u \in 0..2} = {0, 1, 2}

\* C8: on a directed graph RelabelByDegree does nothing but report the error
\* and end the process with a nonzero status: no array is allocated and no
\* graph is returned; on an undirected graph it never reports or ends the
\* process.
C8_RelabelDirectedIsFatal ==
  /\ rl_pc \in {"Pairs", "NewIds", "Rewrite", "Done", "Exited"} =>
       (rg.directed <=> rl_pc = "Exited")
  /\ rl_pc = "Exited" =>
       /\ cout = <<"Cannot relabel directed graph">>
       /\ Len(exit_status) = 1
       /\ exit_status[1] # 0
       /\ degree_id_pairs = NullPtr
       /\ new_ids = NullPtr
       /\ rl_degrees = NullPtr
       /\ rl_offsets = NullPtr
       /\ rl_index = NullPtr
       /\ rl_neighs = NullPtr
       /\ rl_result = DefaultGraph
       /\ ~ENABLED NextRelabel
  /\ rl_pc # "Exited" => (cout = <<>> /\ exit_status = NoExit)

\* The process has ended on a directed graph of three nodes with edges.
C8_Witness ==
  /\ rl_pc = "Exited"
  /\ rg.directed
  /\ rg.num_nodes = 3
  /\ Size(rg.neighs) > 0

-----------------------------------------------------------------------------
\* Bucket (bucket.h): a vector of chunks that producers append to by swapping
\* their own vectors in, and a chunk-and-offset iterator over it.

Producers == 1..NumProducers

\* The vector a producer fills before it hands it off: len tagged elements.
VectorOf(p, len) == [k \in 1..len |-> <<p, k>>]

\* A guard that also leaves a vector of one element out.
LongerThanOne(vec) == Len(vec) > 1

\* No guard at all.
AnyVector(vec) == TRUE

\* !v.empty()
NotEmpty(vec) == Len(vec) > 0

\* begin()
Begin == [chunk_index_ |-> 0, chunk_offset_ |-> 0]

\* end()
End(chunks) == [chunk_index_ |-> Len(chunks), chunk_offset_ |-> 0]

\* operator*
Deref(chunks, i) == chunks[i.chunk_index_ + 1][i.chunk_offset_ + 1]

\* operator++
Increment(chunks, i) ==
  LET chunk_offset == i.chunk_offset_ + 1
  IN  IF chunk_offset = Len(chunks[i.chunk_index_ + 1])
        THEN [chunk_index_ |-> i.chunk_index_ + 1, chunk_offset_ |-> 0]
        ELSE [chunk_index_ |-> i.chunk_index_, chunk_offset_ |-> chunk_offset]

\* operator==, of two iterators of the same bucket
Equals(a, b) ==
  /\ a.chunk_index_ = b.chunk_index_
  /\ a.chunk_offset_ = b.chunk_offset_

\* operator<
Less(a, b) ==
  IF a.chunk_index_ = b.chunk_index_
    THEN a.chunk_offset_ = b.chunk_offset_
    ELSE a.chunk_index_ < b.chunk_index_

\* The iterators of a bucket: one at each element, and end().
Positions(chunks) ==
  {[chunk_index_ |-> c - 1, chunk_offset_ |-> o - 1] :
     <<c, o>> \in {x \in (1..Len(chunks)) \X (1..(MaxVectorLen + 1)) :
                     x[2] <= Len(chunks[x[1]])}}
    \cup {End(chunks)}

\* A new bucket, and producers that each hold a vector of their own.
InitBucket ==
  /\ b_pc = "append"
  /\ chunks_ = <<>>
  /\ num_elements_ = 0
  /\ \E len \in [Producers -> 0..MaxVectorLen] :
       v = [p \in Producers |-> VectorOf(p, len[p])]
  /\ v0 = v
  /\ p_pc = [p \in Producers |-> "ready"]
  /\ it = NoIterator
  /\ walk = <<>>
  /\ cmp = NoIterator
  /\ NoSource /\ ArithIdle /\ CallsIdle
  /\ BuilderIdle
  /\ PrefixIdle
  /\ RelabelIdle

\* swap_vector_in(v), called by producer p: the test of v, which is p's own,
\* and the critical section are one step.
swap_vector_in(p) ==
  /\ b_pc = "append"
  /\ p_pc[p] = "ready"
  /\ IF NotEmpty(v[p])
       THEN /\ num_elements_' = num_elements_ + Len(v[p])
            /\ chunks_' = Append(chunks_, v[p])
            /\ v' = [v EXCEPT ![p] = <<>>]
       ELSE UNCHANGED <<num_elements_, chunks_, v>>
  /\ p_pc' = [p_pc EXCEPT ![p] = "done"]
  /\ UNCHANGED <<b_pc, v0, it, walk, cmp, notBucketVars>>

\* Every call has returned; reading starts at begin().
BeginIteration ==
  /\ b_pc = "append"
  /\ \A p \in Producers : p_pc[p] = "done"
  /\ b_pc' = "read"
  /\ it' = <<Begin>>
  /\ UNCHANGED <<chunks_, num_elements_, v, v0, p_pc, walk, cmp,
                 notBucketVars>>

\* The body of a loop from begin() to end(): *it, then ++it.
ReadAndIncrement ==
  /\ b_pc = "read"
  /\ ~Equals(it[1], End(chunks_))
  /\ walk' = Append(walk, Deref(chunks_, it[1]))
  /\ it' = <<Increment(chunks_, it[1])>>
  /\ UNCHANGED <<b_pc, chunks_, num_elements_, v, v0, p_pc, cmp,
                 notBucketVars>>

\* it < b is evaluated, for an iterator b of the bucket.
Compare ==
  /\ b_pc = "read"
  /\ \E b \in Positions(chunks_) :
       cmp' = <<[a |-> it[1], b |-> b, lt |-> Less(it[1], b)]>>
  /\ b_pc' = "compared"
  /\ UNCHANGED <<chunks_, num_elements_, v, v0, p_pc, it, walk,
                 notBucketVars>>

NextBucket ==
  \/ \E p \in Producers : swap_vector_in(p)
  \/ BeginIteration
  \/ ReadAndIncrement
  \/ Compare

SpecBucket == InitBucket /\ [][NextBucket]_vars

\* The sum of the lengths of the first n of the sequences in seqs.
SumLen(seqs, n) == SumRange([k \in 0..(n - 1) |-> Len(seqs[k + 1])], 0, n)

\* The concatenation of the first n of the sequences in seqs.
RECURSIVE Flatten(_, _)
Flatten(seqs, n) ==
  IF n = 0 THEN <<>> ELSE Flatten(seqs, n - 1) \o seqs[n]

\* The producers whose vector had elements.
NonEmptyProducers == {p \in Producers : Len(v0[p]) > 0}

\* The orders in which the vectors that had elements can have gone in.
HandOffOrders ==
  {o \in [1..Cardinality(NonEmptyProducers) -> NonEmptyProducers] :
     \A j, k \in DOMAIN o : o[j] = o[k] => j = k}

\* Every call of swap_vector_in has returned.
AllHandedOff == \A p \in DOMAIN p_pc : p_pc[p] = "done"

\* The loop from begin() has reached end().
IterationEnded ==
  /\ b_pc = "read"
  /\ Equals(it[1], End(chunks_))

\* C9: once every producer's swap_vector_in has returned, size() is the sum
\* of the lengths of the producers' vectors, and a loop from begin() to end()
\* reads the vectors that had elements one after another, in some order of
\* the producers, each of them whole and in its own order.
C9_SwapVectorInHandOff ==
  (b_pc # "Idle" /\ AllHandedOff) =>
    /\ num_elements_ = SumLen(v0, NumProducers)
    /\ \A p \in Producers : v[p] = <<>>
    /\ IterationEnded =>
         /\ Len(walk) = num_elements_
         /\ \E o \in HandOffOrders :
              walk = Flatten([k \in DOMAIN o |-> v0[o[k]]], Len(o))

\* The vectors [a1,a2], [b1], [c1,c2,c3] have gone in, the third one first,
\* and the loop has read all six elements.
C9_Witness ==
  /\ b_pc = "read"
  /\ AllHandedOff
  /\ NumProducers >= 3
  /\ Len(v0[1]) = 2 /\ Len(v0[2]) = 1 /\ Len(v0[3]) = 3
  /\ \A p \in Producers \ {1, 2, 3} : Len(v0[p]) = 0
  /\ IterationEnded
  /\ Len(walk) = 6
  /\ walk[1] = <<3, 1>>
  /\ num_elements_ = 6

\* The number of increments that take begin() to the iterator i.
FlatPos(chunks, i) == SumLen(chunks, i.chunk_index_) + i.chunk_offset_

\* C10: a < b is true exactly when the iterator a comes strictly before the
\* iterator b of the same bucket in the flattened sequence.
C10_LessIsStrictlyBefore ==
  cmp # NoIterator =>
    (cmp[1].lt <=> FlatPos(chunks_, cmp[1].a) < FlatPos(chunks_, cmp[1].b))

-----------------------------------------------------------------------------
\* Bucket::iterator arithmetic (bucket.h): operator- and operator+= on the
\* iterators of a bucket whose chunks were swapped in before.

RECURSIVE MinusDown(_, _, _, _)
\* while (op_index > other.chunk_index_) { op_index--; total += size; }
MinusDown(chunks, op_index, other_index, total) ==
  IF op_index > other_index
    THEN MinusDown(chunks, op_index - 1, other_index,
                   total + Len(chunks[op_index]))
    ELSE total

RECURSIVE MinusUp(_, _, _, _)
\* while (op_index < other.chunk_index_) { total += size; op_index++; }
MinusUp(chunks, op_index, other_index, total) ==
  IF op_index < other_index
    THEN MinusUp(chunks, op_index + 1, other_index,
                 total + Len(chunks[op_index + 1]))
    ELSE total

\* operator-: a - b.  The difference of two size_t offsets, returned as
\* int64_t, is the signed difference.
Minus(chunks, a, b) ==
  IF a.chunk_index_ = b.chunk_index_
    THEN a.chunk_offset_ - b.chunk_offset_
  ELSE IF a.chunk_index_ > b.chunk_index_
    THEN MinusDown(chunks, a.chunk_index_, b.chunk_index_, a.chunk_offset_)
           - b.chunk_offset_
  ELSE MinusUp(chunks, a.chunk_index_ + 1, b.chunk_index_,
               Len(chunks[a.chunk_index_ + 1]) - a.chunk_offset_)
         + b.chunk_offset_

RECURSIVE PlusAssignKeepsEnd(_, _, _)
\* An operator+= that moves on to the next chunk only past a chunk's end.
PlusAssignKeepsEnd(chunks, i, to_add) ==
  IF to_add # 0 /\ i.chunk_index_ < Len(chunks)
    THEN LET chunk_offset == i.chunk_offset_ + to_add
             size == Len(chunks[i.chunk_index_ + 1])
         IN  IF chunk_offset > size
               THEN PlusAssignKeepsEnd(
                      chunks,
                      [chunk_index_ |-> i.chunk_index_ + 1, chunk_offset_ |-> 0],
                      chunk_offset - size)
               ELSE [chunk_index_ |-> i.chunk_index_,
                     chunk_offset_ |-> chunk_offset]
    ELSE i

RECURSIVE PlusAssign(_, _, _)
\* operator+=: i += to_add, for to_add >= 0.
PlusAssign(chunks, i, to_add) ==
  IF to_add # 0 /\ i.chunk_index_ < Len(chunks)
    THEN LET chunk_offset == i.chunk_offset_ + to_add
             size == Len(chunks[i.chunk_index_ + 1])
         IN  IF chunk_offset >= size
               THEN PlusAssign(
                      chunks,
                      [chunk_index_ |-> i.chunk_index_ + 1, chunk_offset_ |-> 0],
                      chunk_offset - size)
               ELSE [chunk_index_ |-> i.chunk_index_,
                     chunk_offset_ |-> chunk_offset]
    ELSE i

\* A bucket that up to NumProducers vectors of 1..MaxVectorLen elements were
\* swapped into, and an iterator at begin().
InitIterator ==
  /\ a_pc = "walk"
  /\ \E k \in 0..NumProducers :
       \E len \in [1..k -> 1..MaxVectorLen] :
         chunks_ref_ = [c \in 1..k |-> VectorOf(c, len[c])]
  /\ pos = <<Begin>>
  /\ dist = NoIterator
  /\ adv = NoIterator
  /\ NoSource /\ CallsIdle
  /\ BuilderIdle /\ PrefixIdle /\ RelabelIdle /\ BucketIdle

\* ++pos
IncrementPos ==
  /\ a_pc = "walk"
  /\ ~Equals(pos[1], End(chunks_ref_))
  /\ pos' = <<Increment(chunks_ref_, pos[1])>>
  /\ UNCHANGED <<a_pc, chunks_ref_, dist, adv, notArithVars>>

\* pos - b and b - pos are evaluated, for an iterator b of the bucket.
Distance ==
  /\ a_pc = "walk"
  /\ \E b \in Positions(chunks_ref_) :
       dist' = <<[a |-> pos[1], b |-> b,
                  ab |-> Minus(chunks_ref_, pos[1], b),
                  ba |-> Minus(chunks_ref_, b, pos[1])]>>
  /\ a_pc' = "measured"
  /\ UNCHANGED <<chunks_ref_, pos, adv, notArithVars>>

\* A copy of pos is advanced by to_add.
Advance ==
  /\ a_pc = "walk"
  /\ \E to_add \in 0..(NumProducers * MaxVectorLen) :
       adv' = <<[from |-> pos[1], to_add |-> to_add,
                 to |-> PlusAssign(chunks_ref_, pos[1], to_add)]>>
  /\ a_pc' = "advanced"
  /\ UNCHANGED <<chunks_ref_, pos, dist, notArithVars>>

NextIterator ==
  \/ IncrementPos
  \/ Distance
  \/ Advance

SpecIterator == InitIterator /\ [][NextIterator]_vars

\* C11: b - a is the signed number of increments that take a to b, and
\* a - b = -(b - a), for iterators in the same chunk and in different chunks.
C11_MinusIsSignedDistance ==
  dist # NoIterator =>
    /\ dist[1].ab = FlatPos(chunks_ref_, dist[1].a)
                      - FlatPos(chunks_ref_, dist[1].b)
    /\ dist[1].ba = FlatPos(chunks_ref_, dist[1].b)
                      - FlatPos(chunks_ref_, dist[1].a)
    /\ dist[1].ab = -dist[1].ba

RECURSIVE IncrementTimes(_, _, _)
\* ++ applied n times to the iterator i.
IncrementTimes(chunks, i, n) ==
  IF n = 0 THEN i ELSE IncrementTimes(chunks, Increment(chunks, i), n - 1)

\* C12: for 0 <= n <= end() - p, p += n is the position that n applications
\* of ++ to p give, and p += (end() - p) equals end().
C12_PlusAssignIsRepeatedIncrement ==
  adv # NoIterator =>
    LET p == adv[1].from
        n == adv[1].to_add
        left == Minus(chunks_ref_, End(chunks_ref_), p)
    IN  n <= left =>
          /\ adv[1].to = IncrementTimes(chunks_ref_, p, n)
          /\ n = left => Equals(adv[1].to, End(chunks_ref_))

\* An iterator inside the first of three chunks of three different lengths
\* was advanced over two chunk boundaries to the inside of the third.
C12_Witness ==
  /\ adv # NoIterator
  /\ Len(chunks_ref_) = 3
  /\ {Len(chunks_ref_[c]) : c \in 1..3} = {1, 2, 3}
  /\ adv[1].from.chunk_index_ = 0
  /\ adv[1].from.chunk_offset_ > 0
  /\ adv[1].to.chunk_index_ = 2
  /\ adv[1].to.chunk_offset_ > 0
  /\ adv[1].to_add < Minus(chunks_ref_, End(chunks_ref_), adv[1].from)

-----------------------------------------------------------------------------
\* MakeGraph (builder.h) from its first line: what it builds from decides
\* whether anything is built at all.

Sources == {"serialized", "file", "generated", "none"}

\* An edge list that gives node 0 two different neighbors, the larger first.
FanEL == << <<0, 2>>, <<0, 1>>, <<2, 0>> >>

\* The edge lists a file or the generator can give.
BuildLists ==
  UNION {[1..k -> (0..MaxBuildNodeID) \X (0..MaxBuildNodeID)] :
           k \in 0..MaxBuildEdges}
    \cup {ScenarioEL, FanEL}

\* r.ReadSerializedGraph(): some graph.
SerializedGraphs ==
  [num_nodes : 0..(MaxBuildNodeID + 1), directed : BOOLEAN]

\* el is what ReadFile or GenerateEL will give; it stays empty when neither
\* is called.
InitMakeGraph ==
  /\ source \in Sources
  /\ BuilderStart("Start", BuildLists)
  /\ source \in {"serialized", "none"} => el = <<>>
  /\ PrefixIdle /\ RelabelIdle /\ BucketIdle /\ ArithIdle /\ CallsIdle

\* MakeGraph up to the call of MakeGraphFromEL, or to the return of the
\* serialized graph.
MakeGraph ==
  /\ pc = "Start"
  /\ IF source = "serialized"
       THEN /\ result' \in SerializedGraphs
            /\ pc' = "Done"
       ELSE /\ pc' = "MakeGraph"
            /\ UNCHANGED result
  /\ UNCHANGED <<el, symmetrize_, invert, num_nodes_, transpose, degrees,
                 offsets, index, neighs, it_pc, slot_u, slot_v, writes, g,
                 sq_transpose, diffs, sq_offsets, sq_index, sq_neighs, n_pc,
                 pre_squish,
                 notBuilderVars>>

NextMakeGraph ==
  \/ MakeGraph
  \/ NextBuilder

SpecMakeGraph == InitMakeGraph /\ [][NextMakeGraph]_vars

\* The steps of MakeGraph in their order: 0 before anything, 1 node-count
\* discovery, 2 forward CSR build, 3 reverse CSR build, 4 Squish of the
\* outgoing side, 5 Squish of the incoming side, 6 returned.
Stage(at, t, sq_t) ==
  CASE at = "Start" -> 0
    [] at = "MakeGraph" -> 1
    [] at \in {"CountDegrees", "Scatter"} -> IF t THEN 3 ELSE 2
    [] at \in {"SquishCSR", "SquishCopy"} -> IF sq_t THEN 5 ELSE 4
    [] at = "Done" -> 6

\* The changes of stage MakeGraph may make.
StageOrder ==
  LET from == Stage(pc, transpose, sq_transpose)
      to == Stage(pc', transpose', sq_transpose')
      reverse == ~symmetrize_ /\ invert
      incoming == ~symmetrize_ /\ invert
  IN  from # to =>
        \/ from = 0 /\ to = 6 /\ source = "serialized"
        \/ from = 0 /\ to = 1 /\ source # "serialized"
        \/ from = 1 /\ to = 2 /\ num_nodes_' = FindMaxNodeID(el) + 1
        \/ from = 2 /\ to = 3 /\ reverse
        \/ from = 2 /\ to = 4 /\ ~reverse
        \/ from = 3 /\ to = 4
        \/ from = 4 /\ to = 5 /\ incoming
        \/ from = 4 /\ to = 6 /\ ~incoming
        \/ from = 5 /\ to = 6

\* Nothing of the build has run.
NothingBuilt ==
  /\ num_nodes_ = NoNumNodes
  /\ degrees = NullPtr
  /\ offsets = NullPtr
  /\ \A s \in Sides : index[s] = NullPtr /\ neighs[s] = NullPtr
  /\ \A s \in Sides : sq_index[s] = NullPtr /\ sq_neighs[s] = NullPtr
  /\ \A s \in Sides : pre_squish[s] = NullPtr
  /\ diffs = NullPtr
  /\ sq_offsets = NullPtr

\* What holds of every state of MakeGraph.
StageInvariant ==
  /\ source = "serialized" => (pc \in {"Start", "Done"} /\ NothingBuilt)
  /\ (pc = "Done" /\ source # "serialized") =>
       /\ \A s \in Sides :
            sq_index[s] # NullPtr
              <=> (s = "out" \/ (~symmetrize_ /\ invert))
       /\ \A s \in Sides : sq_index[s] # NullPtr <=> pre_squish[s] # NullPtr
       /\ result = [num_nodes |-> num_nodes_, directed |-> ~symmetrize_]
  /\ RelabelIdle

\* C13: with a serialized graph MakeGraph returns it and runs no step of the
\* build; otherwise the steps come in the order node-count discovery, forward
\* build, reverse build (exactly when not symmetrizing and inverting), Squish
\* of each side kept, return, no step twice; RelabelByDegree never runs.
C13_MakeGraphSequencing == []StageInvariant /\ [][StageOrder]_vars

\* MakeGraph has returned a directed graph built from a file's edge list:
\* both builds and both Squish passes have run.
C13_Witness ==
  /\ pc = "Done"
  /\ source = "file"
  /\ ~symmetrize_ /\ invert
  /\ el = ScenarioEL
  /\ sq_index["in"] # NullPtr
  /\ Size(sq_neighs["out"]) = 2

\* The nodes other than n that the edge list puts into n's slice of a side.
SliceMembers(s, n) ==
  {m \in 0..(num_nodes_ - 1) :
     /\ m # n
     /\ \E i \in 1..Len(el) :
          \/ (s = "out" /\ el[i] = <<n, m>>)
          \/ (s = "out" /\ symmetrize_ /\ el[i] = <<m, n>>)
          \/ (s = "in" /\ el[i] = <<m, n>>)}

\* The squished side s as the edge list and the flags alone determine it.
FinalSlices(s) ==
  [n \in 0..(num_nodes_ - 1) |-> Ascending(SliceMembers(s, n), num_nodes_ - 1)]

FinalIndex(s) ==
  PrefixSum([n \in 0..(num_nodes_ - 1) |-> Len(FinalSlices(s)[n])])

FinalNeighs(s) ==
  LET all == Concat(FinalSlices(s), num_nodes_)
  IN  [k \in 0..(Len(all) - 1) |-> all[k + 1]]

\* C14: the squished graph MakeGraph returns is a function of the edge list
\* and the flags alone: whatever the order of the parallel iterations of
\* CountDegrees, MakeCSR and SquishCSR was, the index and the neighbor array
\* of every side kept are the same.
C14_InterleavingIndependence ==
  (pc = "Done" /\ source # "serialized") =>
    \A s \in Sides :
      sq_index[s] # NullPtr =>
        /\ sq_index[s] = FinalIndex(s)
        /\ sq_neighs[s] = FinalNeighs(s)

\* A graph has been returned whose node 0 got two different neighbors from
\* two edges, which the scatter places in either order.
C14_Witness ==
  /\ pc = "Done"
  /\ source = "file"
  /\ ~symmetrize_
  /\ el = FanEL
  /\ index["out"][1] = 2
  /\ Slice(sq_index["out"], sq_neighs["out"], 0) = <<1, 2>>

-----------------------------------------------------------------------------
\* MakeGraph and RelabelByDegree, each run by itself: the three places where
\* an index is made from an offset array.
InitIndex == InitMakeGraph \/ InitRelabel

NextIndex ==
  \/ NextMakeGraph
  \/ NextRelabel

SpecIndex == InitIndex /\ [][NextIndex]_vars

\* The number of entries the edge list gives n's slice of a side.
SliceLength(s, n) ==
  Cardinality({i \in 1..Len(el) :
                 (s = "out" \/ symmetrize_) /\ el[i][1] = n})
    + Cardinality({i \in 1..Len(el) :
                     (s = "in" \/ symmetrize_) /\ el[i][2] = n})

\* C15: in MakeCSR, SquishCSR and RelabelByDegree the index is made from the
\* offsets before any cursor advances: while and after the cursors advance,
\* index[i] is the original offset0[i] for every i in 0..N, whatever the
\* cursors have become.
C15_IndexSnapshot ==
  /\ pc = "Scatter" =>
       LET s == Side(transpose)
       IN  /\ DOMAIN index[s] = 0..num_nodes_
           /\ index[s] = Offset0
           /\ \A n \in 0..(num_nodes_ - 1) :
                /\ index[s][n] <= offsets[n]
                /\ AllIterations(2) => offsets[n] = index[s][n + 1]
  /\ \A s \in Sides :
       index[s] # NullPtr =>
         index[s] = PrefixSum([n \in 0..(num_nodes_ - 1) |-> SliceLength(s, n)])
  /\ pc = "SquishCopy" =>
       /\ sq_index[Side(sq_transpose)] = PrefixSum(diffs)
       /\ sq_offsets = PrefixSum(diffs)
  /\ rl_pc \in {"Rewrite", "Done"} =>
       /\ DOMAIN rl_index = 0..rg.num_nodes
       /\ rl_index = PrefixSum(rl_degrees)
       /\ \A n \in 0..(rg.num_nodes - 1) :
            /\ rl_index[n] <= rl_offsets[n]
            /\ rl_pc = "Done" => rl_offsets[n] = rl_index[n + 1]

\* The scatter of a symmetrized build has ended: node 0's cursor has moved
\* over its three slots, and the index still marks the slice's start.
C15_Witness ==
  /\ ScatterEnded
  /\ el = FanEL
  /\ symmetrize_
  /\ offsets[0] = 3
  /\ index["out"][0] = 0
  /\ index["out"][1] = 3
  /\ index["out"][3] = 6

\* C16: the new ids follow the pairs (degree, id) in descending order: a node
\* of larger degree gets the smaller new id, of two nodes of one degree the
\* one with the larger original id gets the smaller new id, so new_ids[a] is
\* the number of nodes whose pair is greater than a's; the degrees indexed
\* by new id do not increase and degrees[new_ids[u]] is u's out-degree.
C16_RelabelOrdering ==
  rl_pc \in {"Rewrite", "Done"} =>
    LET N == rg.num_nodes
        deg(u) == OutDegree(rg, u)
    IN  /\ \A a, b \in 0..(N - 1) :
             /\ deg(a) > deg(b) => new_ids[a] < new_ids[b]
             /\ (deg(a) = deg(b) /\ a > b) => new_ids[a] < new_ids[b]
        /\ \A a \in 0..(N - 1) :
             new_ids[a] =
               Cardinality({b \in 0..(N - 1) :
                              \/ deg(b) > deg(a)
                              \/ (deg(b) = deg(a) /\ b > a)})
        /\ \A k \in 0..(N - 2) : rl_degrees[k] >= rl_degrees[k + 1]
        /\ \A u \in 0..(N - 1) : rl_degrees[new_ids[u]] = deg(u)

\* Three nodes were relabelled: the one of the largest degree became 0 and
\* of the two others, of one degree, the larger id came first.
C16_Witness ==
  /\ rl_pc = "Done"
  /\ rg.num_nodes = 3
  /\ OutDegree(rg, 0) = 1
  /\ OutDegree(rg, 1) = 2
  /\ OutDegree(rg, 2) = 1
  /\ new_ids = (0 :> 2 @@ 1 :> 0 @@ 2 :> 1)

\* The stores made so far into n's slice.
StoresInto(n) ==
  Cardinality({i \in 1..Len(el) : el[i][1] = n /\ slot_u[i] # Uninit})
    + Cardinality({i \in 1..Len(el) : el[i][2] = n /\ slot_v[i] # Uninit})

\* C17: in every state of MakeCSR's scatter each cursor lies between the
\* start of its node's slice and the start of the next, having advanced by
\* the stores made into the slice; when the scatter has ended every cursor
\* is at the start of the next slice, so the array holds the original offsets
\* no more unless no edge was placed.
C17_CursorEndState ==
  pc = "Scatter" =>
    /\ DOMAIN offsets = 0..num_nodes_
    /\ offsets[num_nodes_] = Offset0[num_nodes_]
    /\ \A u \in 0..(num_nodes_ - 1) :
         /\ Offset0[u] <= offsets[u]
         /\ offsets[u] <= Offset0[u + 1]
         /\ offsets[u] = Offset0[u] + StoresInto(u)
         /\ AllIterations(2) => offsets[u] = Offset0[u + 1]
    /\ (AllIterations(2) /\ Offset0[num_nodes_] > 0) => offsets # Offset0

\* In the scatter of a symmetrized build node 2's cursor has reached the end
\* of its slice while node 0's is inside its own.
C17_Witness ==
  /\ pc = "Scatter"
  /\ el = FanEL
  /\ symmetrize_
  /\ Offset0 = (0 :> 0 @@ 1 :> 3 @@ 2 :> 4 @@ 3 :> 6)
  /\ offsets[0] = 2
  /\ offsets[2] = 6

-----------------------------------------------------------------------------
\* Bucket (bucket.h): push_back, swap_vector_in, clear and swap called one
\* after another, outside any iteration.

\* size()
BucketSize(b) == b.num_elements_

\* empty()
BucketEmpty(b) == BucketSize(b) = 0

\* clear()
Cleared == [chunks_ |-> <<>>, num_elements_ |-> 0]

\* push_back(to_add)
PushBack(b, to_add) ==
  LET chunks == IF b.chunks_ = <<>> THEN << <<>> >> ELSE b.chunks_
  IN  [chunks_ |-> [chunks EXCEPT ![Len(chunks)] = Append(@, to_add)],
       num_elements_ |-> b.num_elements_ + 1]

\* swap_vector_in(v), by one caller
SwapVectorIn(b, vec) ==
  IF NotEmpty(vec)
    THEN [chunks_ |-> Append(b.chunks_, vec),
          num_elements_ |-> b.num_elements_ + Len(vec)]
    ELSE b

InitCalls ==
  /\ CallsIdle
  /\ NoSource /\ ArithIdle
  /\ BuilderIdle /\ PrefixIdle /\ RelabelIdle /\ BucketIdle

push_back ==
  /\ calls < MaxCalls
  /\ bucket' = PushBack(bucket, <<calls, 0>>)
  /\ calls' = calls + 1
  /\ UNCHANGED <<other, notCallVars>>

SwapVectorInCall ==
  /\ calls < MaxCalls
  /\ \E len \in 0..MaxVectorLen :
       bucket' = SwapVectorIn(bucket, VectorOf(calls, len))
  /\ calls' = calls + 1
  /\ UNCHANGED <<other, notCallVars>>

clear ==
  /\ calls < MaxCalls
  /\ bucket' = Cleared
  /\ calls' = calls + 1
  /\ UNCHANGED <<other, notCallVars>>

\* swap(other)
swap ==
  /\ calls < MaxCalls
  /\ bucket' = other
  /\ other' = bucket
  /\ calls' = calls + 1
  /\ UNCHANGED notCallVars

NextCalls ==
  \/ push_back
  \/ SwapVectorInCall
  \/ clear
  \/ swap

SpecCalls == InitCalls /\ [][NextCalls]_vars

\* The iterator i is at an element of chunks.
AtElement(chunks, i) ==
  /\ i.chunk_index_ < Len(chunks)
  /\ i.chunk_offset_ < Len(chunks[i.chunk_index_ + 1])

\* What C18 says of one bucket.
WellFormed(b) ==
  /\ \A c \in 1..Len(b.chunks_) : b.chunks_[c] # <<>>
  /\ BucketSize(b) = SumLen(b.chunks_, Len(b.chunks_))
  /\ BucketEmpty(b) <=> b.chunks_ = <<>>
  /\ \A k \in 0..(BucketSize(b) - 1) :
       AtElement(b.chunks_, IncrementTimes(b.chunks_, Begin, k))
  /\ Equals(IncrementTimes(b.chunks_, Begin, BucketSize(b)), End(b.chunks_))

\* C18: after any sequence of push_back, swap_vector_in, clear and swap, in
\* both buckets no chunk is empty, size() is the sum of the chunk lengths,
\* empty() holds exactly when there is no chunk, and size() increments take
\* an iterator from begin() to end(), every position before being at an
\* element.
C18_BucketStructure == WellFormed(bucket) /\ WellFormed(other)

\* A vector was swapped in, the buckets were swapped, a longer vector was
\* swapped in and an element pushed behind it.
C18_Witness ==
  /\ calls = 4
  /\ other.num_elements_ = 1
  /\ Len(bucket.chunks_) = 1
  /\ Len(bucket.chunks_[1]) = 3
  /\ bucket.chunks_[1][3] = <<3, 0>>

\* The pairs of different nodes that an edge of the edge list joins.
UndirectedEdges ==
  {{el[i][1], el[i][2]} : i \in {j \in 1..Len(el) : el[j][1] # el[j][2]}}

\* C19: in the graph MakeGraph returns when symmetrizing, v is in u's slice
\* exactly when u is in v's slice, for all different nodes u and v, and the
\* neighbor array holds every undirected edge twice.
C19_SymmetrizedIsSymmetric ==
  (pc = "Done" /\ symmetrize_ /\ source # "serialized") =>
    LET N == result.num_nodes
        slice(u) == Range(Slice(sq_index["out"], sq_neighs["out"], u))
    IN  /\ \A u \in 0..(N - 1) : slice(u) \subseteq (0..(N - 1)) \ {u}
        /\ \A u, w \in 0..(N - 1) : w \in slice(u) <=> u \in slice(w)
        /\ Size(sq_neighs["out"]) = 2 * Cardinality(UndirectedEdges)
        /\ sq_index["in"] = NullPtr

\* The symmetrized graph of the edges (0,2), (0,1), (2,0) has been returned:
\* node 0 has the neighbors 1 and 2, which both have 0.
C19_Witness ==
  /\ pc = "Done"
  /\ symmetrize_
  /\ el = FanEL
  /\ Slice(sq_index["out"], sq_neighs["out"], 0) = <<1, 2>>
  /\ Slice(sq_index["out"], sq_neighs["out"], 1) = <<0>>
  /\ Slice(sq_index["out"], sq_neighs["out"], 2) = <<0>>

\* What holds of every state of RelabelByDegree's third loop: the iterations
\* have different cursors and different slices, and each cursor has advanced
\* inside its slice by the neighbors its iteration has written.
RewriteSeparate ==
  rl_pc = "Rewrite" =>
    LET N == rg.num_nodes
    IN  /\ \A u1, u2 \in 0..(N - 1) : u1 # u2 => new_ids[u1] # new_ids[u2]
        /\ \A k \in 0..(N - 1) : rl_index[k] <= rl_index[k + 1]
        /\ \A u \in 0..(N - 1) :
             LET written == Min(u_pc[u], OutDegree(rg, u))
             IN  /\ rl_offsets[new_ids[u]] = rl_index[new_ids[u]] + written
                 /\ rl_offsets[new_ids[u]] <= rl_index[new_ids[u] + 1]
                 /\ u_pc[u] >= OutDegree(rg, u) =>
                      rl_offsets[new_ids[u]] = rl_index[new_ids[u] + 1]

\* What holds of every step of the third loop: it is a step of one iteration
\* u, which changes no cursor but that of new_ids[u] and no neighbor slot
\* outside the slice of new_ids[u], while what all iterations read (the
\* argument, new_ids, the index) stays as it is.
RewriteStep ==
  (rl_pc = "Rewrite" /\ rl_pc' = "Rewrite" /\ u_pc' # u_pc) =>
    \E u \in 0..(rg.num_nodes - 1) :
      /\ u_pc' = [u_pc EXCEPT ![u] = @ + 1]
      /\ \A k \in DOMAIN rl_offsets :
           rl_offsets'[k] # rl_offsets[k] => k = new_ids[u]
      /\ \A k \in DOMAIN rl_neighs :
           rl_neighs'[k] # rl_neighs[k] =>
             (rl_index[new_ids[u]] <= k /\ k < rl_index[new_ids[u] + 1])
      /\ UNCHANGED <<rg, new_ids, rl_index>>

\* C20: in the third loop of RelabelByDegree no two iterations share a
\* cursor, a neighbor slot or a slice to sort, in any interleaving, and each
\* iteration writes out_degree(u) entries, all inside the slice of
\* new_ids[u].
C20_RelabelRaceFree == []RewriteSeparate /\ [][RewriteStep]_vars

\* Two iterations of the third loop have each written one of their two
\* neighbors.
C20_Witness ==
  /\ rl_pc = "Rewrite"
  /\ rg.num_nodes = 3
  /\ OutDegree(rg, 0) = 2
  /\ OutDegree(rg, 1) = 2
  /\ u_pc[0] = 1
  /\ u_pc[1] = 1
  /\ new_ids[0] # 0
=============================================================================
